---- MODULE Spec2Model ----
(***************************************************************************)
(* minrpc: a synchronous RPC client (client.py) driving worker processes   *)
(* (service.py) over framed UNIX stream sockets (connection.py).           *)
(*                                                                         *)
(* The controlling process "ctl" runs Callers (threads) that use Client 0  *)
(* (made by spawn_subprocess) and Client 1 (made by fork_client).  Worker  *)
(* 0 is the spawned process, worker 1 the process duplicated by os.fork(). *)
(* Socket pair i has the local endpoint L(i) and the remote endpoint R(i); *)
(* toW[i] / toC[i] are the byte streams towards the worker / the client.   *)
(***************************************************************************)
EXTENDS Integers, Sequences, FiniteSets, TLC

\* ------------------------------------------------------------------ bounds
MaxCalls == 2        \* function_call requests and close() calls started, in total
NumCallers == 2      \* threads of the controlling process
MaxFrames == 2       \* frames written to the stream a reader receives from
MaxFd == 5           \* descriptor numbers are 0..MaxFd-1; get_max_fd() <= MaxFd
MaxKeep == 3         \* length of the list given to close_all_but

\* --------------------------------------------------------------- constants
HEADER_SIZE == 4     \* Struct("!L").size
P_PID == 1           \* os.P_PID, the waitid() id-type constant
Pid0 == 10           \* proc.pid of the spawned worker
Pid1 == 11           \* pid the kernel gives the duplicated worker

Callers == 1..NumCallers
Pairs == {0, 1}
NoFd == "-"

\* ------------------------------------------------------ serialization
\* Every picklable atom of the model and its one-byte encoding.  A message
\* is a (kind, args) tuple; a pickled str s is written as the message
\* ("str", (s)) and the pickled empty list as ("list", ()).
Atoms ==
    << "close", "fork", "function_call", "data", "exception", "ready",
       "None", "mod", "succ", "boom", "kw", "0", "1", "2",
       "builtins.ValueError", "builtins.IndexError", "builtins.OSError",
       "builtins.TypeError", "trace:ValueError", "trace:IndexError",
       "trace:OSError", "trace:TypeError", "str", "list", "ping" >>

Code(a) == CHOOSE i \in 1..Len(Atoms) : Atoms[i] = a

\* pickle.dumps((kind, args), -1): the kind, then each argument.
Dumps(msg) ==
    <<Code(msg[1])>> \o [i \in 1..Len(msg[2]) |-> Code(msg[2][i])]

\* pickle.loads(payload): an empty payload raises EOFError ("Ran out of
\* input"), an unknown opcode raises UnpicklingError.
Loads(payload) ==
    IF Len(payload) = 0 THEN [ok |-> FALSE, exc |-> "EOFError"]
    ELSE IF \E i \in 1..Len(payload) : payload[i] \notin 1..Len(Atoms)
         THEN [ok |-> FALSE, exc |-> "UnpicklingError"]
    ELSE [ok |-> TRUE,
          msg |-> << Atoms[payload[1]],
                     [i \in 1..(Len(payload) - 1) |-> Atoms[payload[i + 1]]] >>]

\* HEADER.pack(n): 4 bytes, big-endian, unsigned.
HeaderPack(n) ==
    << (n \div 16777216) % 256, (n \div 65536) % 256, (n \div 256) % 256, n % 256 >>

\* HEADER.unpack(header)
HeaderUnpack(h) ==
    h[1] * 16777216 + h[2] * 65536 + h[3] * 256 + h[4]

Bytes(bs) == [i \in 1..Len(bs) |-> [b |-> bs[i], fd |-> NoFd]]

Raw(stream) == [i \in 1..Len(stream) |-> stream[i].b]

\* SerializedSocket.send: the frame written for a message.
SendFrame(msg) ==
    LET payload == Dumps(msg) IN Bytes(HeaderPack(Len(payload)) \o payload)

\* SerializedSocket.send_fd: a zero-length frame whose first byte carries
\* the descriptor as SCM_RIGHTS ancillary data.
SendFdFrame(fd) ==
    LET z == HeaderPack(0) IN
    [i \in 1..Len(z) |-> [b |-> z[i], fd |-> IF i = 1 THEN fd ELSE NoFd]]

\* SerializedSocket.recv on a stream whose peer is open (peerOpen) or gone:
\*   [st |-> "msg", msg, rest]   a whole frame was read and unpickled
\*   [st |-> "exc", exc, rest]   the read or the unpickling raised
\*   [st |-> "block"]            the blocking read has not enough bytes yet
Recv(stream, peerOpen) ==
    IF Len(stream) < HEADER_SIZE
    THEN IF peerOpen THEN [st |-> "block"]
         ELSE [st |-> "exc", exc |-> "EOFError", rest |-> << >>]
    ELSE LET n == HeaderUnpack(Raw(SubSeq(stream, 1, HEADER_SIZE)))
             have == Len(stream) - HEADER_SIZE
         IN IF have < n
            THEN IF peerOpen THEN [st |-> "block"]
                 ELSE [st |-> "exc", exc |-> "EOFError", rest |-> << >>]
            ELSE LET r == Loads(Raw(SubSeq(stream, HEADER_SIZE + 1, HEADER_SIZE + n)))
                     rest == SubSeq(stream, HEADER_SIZE + n + 1, Len(stream))
                 IN IF r.ok THEN [st |-> "msg", msg |-> r.msg, rest |-> rest]
                    ELSE [st |-> "exc", exc |-> r.exc, rest |-> rest]

\* ---------------------------------------------------------------- state
VARIABLES
    cl,        \* cl[c]: the Client objects: made, good (_good), open (its
               \*   socket object is not closed), pid (_proc_pid, 0 is None)
    lock,      \* the lock object given to spawn_subprocess and shared by
               \*   the forked Client: kind "NoLock" or "Lock", holder
    th,        \* th[t]: where caller t is inside _request / fork_client
    calls,     \* function_call requests and close() calls started so far
    forked,    \* fork_client has been started (socket pair 1 is in use)
    sv,        \* sv[w]: the worker processes and their Service loop
    holders,   \* holders[e]: processes holding an open descriptor of e
    toW, toC,  \* toW[i] / toC[i]: bytes in flight on socket pair i
    sigs,      \* pids that were sent SIGTERM by os.kill
    hist,      \* hist[c]: what has happened on Client c so far (history)
    last,      \* the operation that ended in the step just taken, and how
    rd,        \* a reader inside SerializedSocket.recv, read by read
    ft         \* a process inside ipc.close_all_but and its descriptors

main == << cl, lock, th, calls, forked, sv, holders, toW, toC, sigs, hist, last >>
aux == << rd, ft >>
vars == << cl, lock, th, calls, forked, sv, holders, toW, toC, sigs, hist, last, rd, ft >>

L(i) == IF i = 0 THEN "L0" ELSE "L1"
R(i) == IF i = 0 THEN "R0" ELSE "R1"
Endpoints == {"L0", "R0", "L1", "R1"}
Proc(w) == IF w = 0 THEN "w0" ELSE "w1"
PidOf(w) == IF w = 0 THEN Pid0 ELSE Pid1

\* How an operation ends: it returns v, or raises v with message m; sig is
\* the pid close() gave to os.kill (0: it made no such call).
Ret(v) == [k |-> "return", v |-> v, m |-> "", sig |-> 0]
Raise(e, m) == [k |-> "raise", v |-> e, m |-> m, sig |-> 0]
NoRes == [k |-> "none", v |-> "", m |-> "", sig |-> 0]

\* hist[c] before anything has happened on Client c.
NoHist ==
    [overlap |-> FALSE, closeCalled |-> FALSE, closeDone |-> FALSE,
     ioFailed |-> FALSE, handlerRaised |-> FALSE, answered |-> FALSE]

\* What an operation on Client c remembers of hist[c] as it starts.
Pre(c) == [closeCalled |-> hist[c].closeCalled, ioFailed |-> hist[c].ioFailed]
NoPre == [closeCalled |-> FALSE, ioFailed |-> FALSE]

\* A caller outside any operation.  In an operation, pre is Pre(c) as it
\* was when the operation started and want is what the handler gives.
IdleTh ==
    [pc |-> "idle", op |-> "none", c |-> 0, msg |-> << "close", << >> >>,
     want |-> NoRes, newpid |-> "", pre |-> NoPre]

\* last when no operation ended in the step just taken.
NoLast ==
    [op |-> "none", c |-> 0, res |-> NoRes, want |-> NoRes, pre |-> NoPre,
     again |-> FALSE]

\* Client.closed: self._conn.closed(), the socket's fileno() is -1.
Closed(c) == ~cl[c].open

\* Client.__bool__ / Client.good
Good(c) == cl[c].good /\ ~Closed(c)

\* The exceptions Client._request turns into RemoteProcessCrashed.
CaughtIO == {"IOError", "EOFError", "OSError", "BrokenPipeError", "ValueError"}

\* int(new_pid)
StrToInt(s) ==
    IF s = "0" THEN 0 ELSE IF s = "1" THEN 1 ELSE IF s = "2" THEN 2 ELSE -1

\* exc_type.__name__ of an unpickled exception class
TypeName(t) ==
    IF t = "builtins.ValueError" THEN "ValueError"
    ELSE IF t = "builtins.IndexError" THEN "IndexError"
    ELSE IF t = "builtins.OSError" THEN "OSError"
    ELSE IF t = "builtins.TypeError" THEN "TypeError"
    ELSE "type"

\* The remote library function named by a function_call request: "succ"
\* returns the successor of its argument, "boom" raises ValueError.
Succ(x) == IF x = "0" THEN "1" ELSE "2"
Function(fn, x) ==
    IF fn = "succ" THEN [ok |-> TRUE, v |-> Succ(x)]
    ELSE [ok |-> FALSE, v |-> "builtins.ValueError"]

\* The functions the callers call, and the argument they pass: successive
\* requests pass different arguments, so their results differ.
Functions == {"succ", "boom"}
Arg(n) == IF n % 2 = 0 THEN "0" ELSE "1"

\* traceback.format_exception(*exc_info), joined
FormatException(t) ==
    IF t = "builtins.ValueError" THEN "trace:ValueError"
    ELSE IF t = "builtins.IndexError" THEN "trace:IndexError"
    ELSE IF t = "builtins.TypeError" THEN "trace:TypeError"
    ELSE "trace:OSError"

\* What the caller of a function_call request is to see.
Expected(fn, x) ==
    LET r == Function(fn, x) IN
    IF r.ok THEN Ret(r.v) ELSE Raise(TypeName(r.v), FormatException(r.v))

\* Caller u is between the send of its request and the end of its exchange
\* on Client c (the fork exchange included).
Busy(u, c) ==
    /\ th[u].c = c
    /\ th[u].pc \in {"send", "recv", "fork_sendfd", "fork_recv_new", "fork_recv_old"}

InFlight(c) == {u \in Callers : Busy(u, c)}

\* The bytes queued for an endpoint are discarded with its last descriptor.
FlushW(h, q) == [i \in Pairs |-> IF h[R(i)] = {} THEN << >> ELSE q[i]]
FlushC(h, q) == [i \in Pairs |-> IF h[L(i)] = {} THEN << >> ELSE q[i]]

\* The controlling process before Client.spawn_subprocess is called.
NoReader ==
    [sent |-> << >>, wire |-> << >>, stream |-> << >>, open |-> FALSE,
     pc |-> "off", size |-> 0, parts |-> << >>, got |-> << >>, exc |-> "",
     n |-> 0, short |-> FALSE]

NoTable ==
    [keep |-> << >>, max |-> 0, sorted |-> << >>, i |-> 0, open |-> {},
     closed |-> {}, pc |-> "off"]

Init ==
    /\ rd = NoReader
    /\ ft = NoTable
    /\ cl = [c \in Pairs |-> [made |-> FALSE, good |-> FALSE, open |-> FALSE, pid |-> 0]]
    /\ lock \in {[kind |-> k, holder |-> 0] : k \in {"NoLock", "Lock"}}
    /\ th = [t \in Callers |-> IdleTh]
    /\ calls = 0
    /\ forked = FALSE
    /\ sv = [w \in Pairs |-> [st |-> "none", pc |-> "recv", conn |-> 0, out |-> "", how |-> ""]]
    /\ holders = [e \in Endpoints |-> {}]
    /\ toW = [i \in Pairs |-> << >>]
    /\ toC = [i \in Pairs |-> << >>]
    /\ sigs = {}
    /\ hist = [c \in Pairs |-> NoHist]
    /\ last = NoLast

\* The callers are interchangeable threads: the next operation is started
\* by the idle caller of lowest number.
Free(t) ==
    /\ th[t].pc = "idle"
    /\ \A u \in Callers : th[u].pc = "idle" => t <= u

\* A caller starts operation op on Client c.
Begin(op, c) == [IdleTh EXCEPT !.op = op, !.c = c, !.pre = Pre(c)]

\* Caller t's operation ends with res; again: a request had been answered
\* on its Client before.
End(t, res) ==
    [op |-> th[t].op, c |-> th[t].c, res |-> res, want |-> th[t].want,
     pre |-> th[t].pre, again |-> hist[th[t].c].answered]

\* -------------------------------------------------- ipc.spawn_subprocess
\* What the worker module answers in the handshake: minrpc.service (the
\* default Client.module) answers 'ready'; another module may answer
\* anything else.
Replies == {"ready", "0"}

\* Client.spawn_subprocess up to subprocess.Popen: create_socketpair() and
\* the new process, which inherits the remote endpoint only (the local one
\* is not inheritable).  The controlling process keeps both endpoints.
StartSpawn(t, reply) ==
    /\ Free(t)
    /\ sv[0].st = "none"
    /\ th' = [th EXCEPT ![t] = [Begin("spawn", 0) EXCEPT !.pc = "spawn_send"]]
    /\ sv' = [sv EXCEPT ![0] = [st |-> "running", pc |-> "boot", conn |-> 0,
                                out |-> reply, how |-> ""]]
    /\ holders' = [holders EXCEPT !["L0"] = {"ctl"}, !["R0"] = {"ctl", "w0"}]
    /\ UNCHANGED << cl, lock, calls, forked, toW, toC, sigs, hist >>
    /\ last' = NoLast

\* local_socket.send(_get_open_file_handles()): the list is empty on posix.
\* The send cannot fail: the remote endpoint is open in this very process.
SpawnSend(t) ==
    /\ th[t].pc = "spawn_send"
    /\ toW' = [toW EXCEPT ![0] = @ \o SendFrame(<< "list", << >> >>)]
    /\ th' = [th EXCEPT ![t].pc = "spawn_recv"]
    /\ UNCHANGED << cl, lock, calls, forked, sv, holders, toC, sigs, hist >>
    /\ last' = NoLast

\* The Client made by cls(sock, lock=lock, proc_pid=proc.pid).
SpawnedClient == [made |-> TRUE, good |-> TRUE, open |-> TRUE, pid |-> Pid0]

\* "if local_socket.recv() != 'ready': raise RuntimeError", then
\* remote_socket.close() and the Client is made.  When spawn_subprocess
\* raises, its two sockets go out of scope and are closed.
SpawnRecv(t) ==
    LET r == Recv(toC[0], holders["R0"] # {})
        ready == r.st = "msg" /\ r.msg = << "str", << "ready" >> >>
    IN
    /\ th[t].pc = "spawn_recv"
    /\ r.st # "block"
    /\ th' = [th EXCEPT ![t] = IdleTh]
    /\ IF ready
       THEN /\ holders' = [holders EXCEPT !["R0"] = @ \ {"ctl"}]
            /\ cl' = [cl EXCEPT ![0] = SpawnedClient]
            /\ last' = End(t, Ret("client0"))
       ELSE /\ holders' = [holders EXCEPT !["L0"] = @ \ {"ctl"}, !["R0"] = @ \ {"ctl"}]
            /\ last' = End(t, Raise(IF r.st = "exc" THEN r.exc ELSE "RuntimeError", ""))
            /\ UNCHANGED << cl >>
    /\ toC' = FlushC(holders', [toC EXCEPT ![0] = r.rest])
    /\ toW' = FlushW(holders', toW)
    /\ UNCHANGED << lock, calls, forked, sv, sigs, hist >>

\* ------------------------------------------------------- Client._request
\* A caller starts client.get_module("mod").fn(x).
StartCall(t, c, fn) ==
    LET x == Arg(calls) IN
    /\ Free(t)
    /\ calls < MaxCalls
    /\ cl[c].made
    /\ calls' = calls + 1
    /\ th' = [th EXCEPT ![t] =
                [Begin("call", c) EXCEPT !.pc = "enter",
                               !.msg = << "function_call", << "mod", fn, x, "kw" >> >>,
                               !.want = Expected(fn, x)]]
    /\ UNCHANGED << cl, lock, forked, sv, holders, toW, toC, sigs, hist >>
    /\ last' = NoLast

\* A caller starts Client._request('ping') on Client c: a request of a
\* kind the Service has no _dispatch_ method for.
StartRequest(t, c) ==
    /\ Free(t)
    /\ calls < MaxCalls
    /\ cl[c].made
    /\ calls' = calls + 1
    /\ th' = [th EXCEPT ![t] =
                [Begin("request", c) EXCEPT !.pc = "enter",
                                           !.msg = << "ping", << >> >>]]
    /\ UNCHANGED << cl, lock, forked, sv, holders, toW, toC, sigs, hist >>
    /\ last' = NoLast

\* A caller starts Client.fork_client(client 0).
StartFork(t) ==
    /\ Free(t)
    /\ cl[0].made
    /\ ~forked
    /\ forked' = TRUE
    /\ th' = [th EXCEPT ![t] =
                [Begin("fork", 0) EXCEPT !.pc = "enter", !.msg = << "fork", << >> >>]]
    /\ UNCHANGED << cl, lock, calls, sv, holders, toW, toC, sigs, hist >>
    /\ last' = NoLast

Unlock(t) == IF lock.holder = t THEN [lock EXCEPT !.holder = 0] ELSE lock

\* "with self._lock:" and the two checks at the head of _request.
ReqEnter(t) ==
    LET c == th[t].c IN
    /\ th[t].pc = "enter"
    /\ lock.kind = "Lock" => lock.holder = 0
    /\ IF Closed(c)
       THEN /\ th' = [th EXCEPT ![t] = IdleTh]
            /\ last' = End(t, Raise("RemoteProcessClosed", ""))
            /\ UNCHANGED << lock, hist >>
       ELSE IF ~cl[c].good
       THEN /\ th' = [th EXCEPT ![t] = IdleTh]
            /\ last' = End(t, Raise("RemoteProcessCrashed", ""))
            /\ UNCHANGED << lock, hist >>
       ELSE /\ th' = [th EXCEPT ![t].pc = "send"]
            /\ lock' = IF lock.kind = "Lock" THEN [lock EXCEPT !.holder = t] ELSE lock
            /\ hist' = [hist EXCEPT ![c].overlap = @ \/ (InFlight(c) \ {t} # {})]
            /\ last' = NoLast
    /\ UNCHANGED << cl, calls, forked, sv, holders, toW, toC, sigs >>

\* Crash with the transport left open (the self._conn.close() forgotten).
CrashKeepsOpen(t, c) ==
    /\ cl' = [cl EXCEPT ![c].good = FALSE]
    /\ UNCHANGED << holders, toC >>
    /\ lock' = Unlock(t)
    /\ th' = [th EXCEPT ![t] = IdleTh]
    /\ last' = End(t, Raise("RemoteProcessCrashed", ""))
    /\ hist' = [hist EXCEPT ![c].ioFailed = TRUE]

\* The except clause of _request: self._good = False; self._conn.close();
\* raise RemoteProcessCrashed().
Crash(t, c) ==
    /\ cl' = [cl EXCEPT ![c].good = FALSE, ![c].open = FALSE]
    /\ holders' = [holders EXCEPT ![L(c)] = @ \ {"ctl"}]
    /\ toC' = FlushC(holders', toC)
    /\ lock' = Unlock(t)
    /\ th' = [th EXCEPT ![t] = IdleTh]
    /\ last' = End(t, Raise("RemoteProcessCrashed", ""))
    /\ hist' = [hist EXCEPT ![c].ioFailed = TRUE]

\* What socket.send raises on the local endpoint of pair c, "" if nothing.
SendError(c) ==
    IF ~cl[c].open THEN "OSError"
    ELSE IF holders[R(c)] = {} THEN "BrokenPipeError"
    ELSE ""

\* _communicate, first half: self._conn.send(message)
ReqSend(t) ==
    LET c == th[t].c IN
    /\ th[t].pc = "send"
    /\ IF SendError(c) # ""
       THEN /\ Crash(t, c)
            /\ UNCHANGED << toW >>
       ELSE /\ toW' = [toW EXCEPT ![c] = @ \o SendFrame(th[t].msg)]
            /\ th' = [th EXCEPT ![t].pc = "recv"]
            /\ UNCHANGED << cl, holders, lock, hist, toC >>
            /\ last' = NoLast
    /\ UNCHANGED << calls, forked, sv, sigs >>

\* _dispatch_exception raising a plain Exception whose text starts with the
\* type name instead of being the message.
DispatchExceptionPlain(excType, message) == Raise("Exception", TypeName(excType))

\* _dispatch_data without its return statement.
DispatchDataNoReturn(data) == Ret("None")

\* Client._dispatch_exception: the raised type is named after the remote
\* exception type and its __str__ is the message.
DispatchException(excType, message) == Raise(TypeName(excType), message)

\* Client._dispatch_data
DispatchData(data) == Ret(data)

\* Client._dispatch
Dispatch(response) ==
    LET kind == response[1]
        args == response[2]
    IN IF kind = "data"
       THEN IF Len(args) = 1 THEN DispatchData(args[1]) ELSE Raise("TypeError", "")
       ELSE IF kind = "exception"
       THEN IF Len(args) = 2 THEN DispatchException(args[1], args[2])
            ELSE Raise("TypeError", "")
       ELSE Raise("AttributeError", "")

\* _communicate, second half: self._conn.recv(); then the lock is released
\* and the reply is dispatched.
ReqRecv(t) ==
    LET c == th[t].c
        r == Recv(toC[c], holders[R(c)] # {})
    IN
    /\ th[t].pc = "recv"
    /\ IF ~cl[c].open
       THEN Crash(t, c)
       ELSE /\ r.st # "block"
            /\ IF r.st = "exc"
               THEN IF r.exc \in CaughtIO
                    THEN Crash(t, c)
                    ELSE /\ toC' = [toC EXCEPT ![c] = r.rest]
                         /\ lock' = Unlock(t)
                         /\ th' = [th EXCEPT ![t] = IdleTh]
                         /\ last' = End(t, Raise(r.exc, ""))
                         /\ UNCHANGED << cl, holders, hist >>
               ELSE LET d == Dispatch(r.msg) IN
                    /\ toC' = [toC EXCEPT ![c] = r.rest]
                    /\ lock' = Unlock(t)
                    /\ IF th[t].op = "fork" /\ d.k = "return"
                       THEN /\ th' = [th EXCEPT ![t].pc = "fork_sendfd"]
                            /\ UNCHANGED << hist >>
                            /\ last' = NoLast
                       ELSE /\ th' = [th EXCEPT ![t] = IdleTh]
                            /\ last' = End(t, d)
                            /\ hist' = IF d.k = "return"
                                       THEN [hist EXCEPT ![c].answered = TRUE]
                                       ELSE hist
                    /\ UNCHANGED << cl, holders >>
    /\ UNCHANGED << calls, forked, sv, toW, sigs >>

\* ---------------------------------------------------- Client.fork_client
\* The local variables new_socket_local / new_socket_remote go out of scope
\* when fork_client raises: their sockets are closed.
ForkRaise(t, e) ==
    /\ th' = [th EXCEPT ![t] = IdleTh]
    /\ last' = End(t, Raise(e, ""))
    /\ holders' = [holders EXCEPT !["L1"] = @ \ {"ctl"}, !["R1"] = @ \ {"ctl"}]

\* ipc.create_socketpair(); client._conn.send_fd(new_socket_remote.fileno())
ForkSendFd(t) ==
    /\ th[t].pc = "fork_sendfd"
    /\ IF SendError(0) # ""
       THEN /\ ForkRaise(t, SendError(0))
            /\ UNCHANGED << toW >>
       ELSE /\ holders' = [holders EXCEPT !["L1"] = {"ctl"}, !["R1"] = {"ctl"}]
            /\ toW' = [toW EXCEPT ![0] = @ \o SendFdFrame("R1")]
            /\ th' = [th EXCEPT ![t].pc = "fork_recv_new"]
            /\ last' = NoLast
    /\ UNCHANGED << cl, lock, calls, forked, sv, toC, sigs, hist >>

\* _, (new_pid,) = new_socket_local.recv()
ForkRecvNew(t) ==
    LET r == Recv(toC[1], holders["R1"] # {}) IN
    /\ th[t].pc = "fork_recv_new"
    /\ r.st # "block"
    /\ IF r.st = "exc" \/ Len(r.msg[2]) # 1
       THEN /\ ForkRaise(t, IF r.st = "exc" THEN r.exc ELSE "ValueError")
            /\ toC' = FlushC(holders', toC)
            /\ toW' = FlushW(holders', toW)
       ELSE /\ toC' = [toC EXCEPT ![1] = r.rest]
            /\ th' = [th EXCEPT ![t].pc = "fork_recv_old", ![t].newpid = r.msg[2][1]]
            /\ UNCHANGED << holders, toW >>
            /\ last' = NoLast
    /\ UNCHANGED << cl, lock, calls, forked, sv, sigs, hist >>

\* cls(new_socket_local, client._lock, int(new_pid))
NewClient(newpid) ==
    [made |-> TRUE, good |-> TRUE, open |-> TRUE, pid |-> StrToInt(newpid)]

\* _, (res_old,) = client._conn.recv(); the "ready" check;
\* new_socket_remote.close(); return cls(...)
ForkRecvOld(t) ==
    LET r == Recv(toC[0], holders["R0"] # {})
        e == IF ~cl[0].open THEN "OSError"
             ELSE IF r.st = "exc" THEN r.exc
             ELSE IF Len(r.msg[2]) # 1 THEN "ValueError"
             ELSE IF r.msg[2][1] # "ready" THEN "RuntimeError"
             ELSE ""
        q == IF cl[0].open /\ r.st = "msg" THEN [toC EXCEPT ![0] = r.rest] ELSE toC
    IN
    /\ th[t].pc = "fork_recv_old"
    /\ ~cl[0].open \/ r.st # "block"
    /\ IF e # ""
       THEN /\ ForkRaise(t, e)
            /\ UNCHANGED << cl >>
       ELSE /\ holders' = [holders EXCEPT !["R1"] = @ \ {"ctl"}]
            /\ cl' = [cl EXCEPT ![1] = NewClient(th[t].newpid)]
            /\ th' = [th EXCEPT ![t] = IdleTh]
            /\ last' = End(t, Ret("client1"))
    /\ toC' = FlushC(holders', q)
    /\ toW' = FlushW(holders', toW)
    /\ UNCHANGED << lock, calls, forked, sv, sigs, hist >>

\* ----------------------------------------------------------- processes
\* Worker w ends (how: "clean", "error", "crash", "sigterm"): it becomes a
\* zombie and all its descriptors are closed.
Exited(w, how) ==
    [sv EXCEPT ![w] = [st |-> "zombie", pc |-> "recv", conn |-> @.conn, out |-> "",
                       how |-> how]]
Dropped(h, w) == [e \in Endpoints |-> h[e] \ {Proc(w)}]

\* os.kill(pid, 15) in the controlling process:
\*   "worker"   pid is a live or zombie worker: the signal is delivered
\*   "init"     pid is 1: delivered to init, or PermissionError
\*   "nobody"   no such process: ProcessLookupError, unless the pid has
\*              been given to an unrelated process, which then gets it
KillTarget(pid) ==
    IF \E w \in Pairs : PidOf(w) = pid /\ sv[w].st \in {"running", "zombie"}
    THEN "worker"
    ELSE IF pid = 1 THEN "init" ELSE "nobody"

KillOutcomes(pid) ==
    IF KillTarget(pid) = "worker" THEN {"delivered"}
    ELSE IF KillTarget(pid) = "init" THEN {"delivered", "PermissionError"}
    ELSE {"delivered", "ProcessLookupError"}

\* os.kill without the os.waitpid that follows it.
AfterKillNoWait(pid) ==
    [w \in Pairs |->
        IF PidOf(w) = pid /\ sv[w].st = "running"
        THEN Exited(w, "sigterm")[w]
        ELSE sv[w]]

\* sv after os.kill(pid, 15) was delivered and os.waitpid(pid, 0) was
\* called: a running worker ends; a child of the controlling process (the
\* spawned worker) is reaped, for any other pid waitpid raises
\* ChildProcessError, which close() ignores.
AfterKill(pid) ==
    [w \in Pairs |->
        IF PidOf(w) = pid /\ sv[w].st \in {"running", "zombie"}
        THEN [st |-> IF w = 0 THEN "reaped" ELSE "zombie", pc |-> "recv",
              conn |-> sv[w].conn, out |-> "",
              how |-> IF sv[w].st = "running" THEN "sigterm" ELSE sv[w].how]
        ELSE sv[w]]

KilledProcs(pid) ==
    {w \in Pairs : PidOf(w) = pid /\ sv[w].st = "running"}

\* ----------------------------------------------------------- Client.close
\* Whether close() sends the 'close' request: "if self.good".
CloseSends(c) == Good(c)

\* Whether close() calls os.kill: "if self._proc_pid".
CloseKills(c) == cl[c].pid # 0

\* The whole of close(); outcome is what os.kill does.
Close(t, c, outcome) ==
    LET pid == cl[c].pid
        sendErr == IF CloseSends(c) THEN SendError(c) ELSE ""
        kills == sendErr = "" /\ CloseKills(c)
        res == IF sendErr # "" THEN Raise(sendErr, "")
               ELSE IF ~kills THEN Ret("None")
               ELSE IF outcome = "delivered" THEN [Ret("None") EXCEPT !.sig = pid]
               ELSE [Raise(outcome, "") EXCEPT !.sig = pid]
        sent == IF CloseSends(c) /\ sendErr = ""
                THEN [toW EXCEPT ![c] = @ \o SendFrame(<< "close", << >> >>)]
                ELSE toW
        h1 == IF sendErr # "" THEN holders
              ELSE [holders EXCEPT ![L(c)] = @ \ {"ctl"}]
        hit == kills /\ outcome = "delivered"
    IN
    /\ Free(t)
    /\ calls < MaxCalls
    /\ cl[c].made
    /\ outcome \in (IF kills THEN KillOutcomes(pid) ELSE {"delivered"})
    /\ calls' = calls + 1
    /\ last' = [op |-> "close", c |-> c, res |-> res, want |-> NoRes,
                pre |-> Pre(c), again |-> hist[c].answered]
    /\ hist' = [hist EXCEPT ![c].closeCalled = TRUE,
                            ![c].closeDone = @ \/ res.k = "return",
                            ![c].overlap = @ \/ (InFlight(c) # {})]
    /\ cl' = IF sendErr # "" THEN cl ELSE [cl EXCEPT ![c].open = FALSE]
    /\ sigs' = IF hit THEN sigs \cup {pid} ELSE sigs
    /\ sv' = IF hit THEN AfterKill(pid) ELSE sv
    /\ holders' = IF hit
                  THEN [e \in Endpoints |-> h1[e] \ {Proc(w) : w \in KilledProcs(pid)}]
                  ELSE h1
    /\ toW' = FlushW(holders', sent)
    /\ toC' = FlushC(holders', toC)
    /\ UNCHANGED << lock, forked, th >>

\* ------------------------------------------------------------- Service
\* What socket.send raises on the worker's endpoint of pair i, "" if nothing.
SvcSendError(i) == IF holders[L(i)] = {} THEN "BrokenPipeError" ELSE ""

\* Service._reply_data(data): the frame sent
ReplyData(data) == SendFrame(<< "data", << data >> >>)

\* _reply_exception sending the exception frame twice.
ReplyExceptionTwice(excType) ==
    SendFrame(<< "exception", << excType, FormatException(excType) >> >>)
        \o SendFrame(<< "exception", << excType, FormatException(excType) >> >>)

\* Service._reply_exception(exc_info): the frame sent
ReplyException(excType) ==
    SendFrame(<< "exception", << excType, FormatException(excType) >> >>)

\* Service._dispatch_function_call
DispatchFunctionCall(args) ==
    IF Len(args) # 4 THEN [ok |-> FALSE, v |-> "builtins.TypeError"]
    ELSE Function(args[2], args[3])

\* Worker w's process ends: its descriptors are closed.
SvcExit(w, how, q) ==
    /\ sv' = Exited(w, how)
    /\ holders' = Dropped(holders, w)
    /\ toW' = FlushW(holders', q)
    /\ toC' = toC

\* The worker, having read its request (q is what is left to read), sends
\* a reply frame and stays in its loop; a failing send is not caught (the
\* socket is not closed locally), so the process ends.
SvcSend(w, frame, pc, out, q) ==
    LET i == sv[w].conn IN
    IF SvcSendError(i) # ""
    THEN SvcExit(w, "error", q)
    ELSE /\ toC' = [toC EXCEPT ![i] = @ \o frame]
         /\ sv' = [sv EXCEPT ![w].pc = pc, ![w].out = out]
         /\ toW' = q
         /\ UNCHANGED << holders >>

\* _dispatch_close leaving the socket open: data(None) is sent as reply.
DispatchCloseReplies(w, q) == SvcSend(w, ReplyData("None"), "recv", "", q)

\* Service._dispatch_close closes the socket; _reply_data(None) then fails
\* on the closed socket, _dispatch returns False, run() and stdio_main
\* return and the process ends.
DispatchClose(w, q) == SvcExit(w, "clean", q)

\* ipc.prepare_subprocess_ipc in the new process, after close_all_but:
\* "for handle in sock.recv(): ..." and sock.send('ready').  Nothing is
\* caught here: a failing recv or send ends the process.
SvcBoot(w) ==
    LET r == Recv(toW[0], holders["L0"] # {})
        q == [toW EXCEPT ![0] = r.rest]
    IN
    /\ sv[w].st = "running"
    /\ sv[w].pc = "boot"
    /\ r.st # "block"
    /\ IF r.st = "exc" \/ r.msg[1] # "list"
       THEN SvcExit(w, "error", q)
       ELSE SvcSend(w, SendFrame(<< "str", << sv[w].out >> >>), "recv", "", q)
    /\ UNCHANGED << cl, lock, th, calls, forked, sigs, hist >>
    /\ last' = NoLast

\* Service._communicate and Service._dispatch for one request; for 'fork'
\* up to the data(None) acknowledgment of _dispatch_fork.
SvcRecv(w) ==
    LET i == sv[w].conn
        r == Recv(toW[i], holders[L(i)] # {})
        q == [toW EXCEPT ![i] = r.rest]
    IN
    /\ sv[w].st = "running"
    /\ sv[w].pc = "recv"
    /\ r.st # "block"
    /\ IF r.st = "exc"
       THEN \* recv raised: _communicate returns False (or the error
            \* propagates), run() ends and the process exits
            SvcExit(w, IF r.exc \in CaughtIO THEN "clean" ELSE "error", q)
       ELSE LET kind == r.msg[1]
                args == r.msg[2]
            IN
            IF kind = "close" /\ Len(args) = 0
            THEN DispatchClose(w, q)
            ELSE IF kind = "fork" /\ Len(args) = 0
            THEN SvcSend(w, ReplyData("None"), "fork_fd", "", q)
            ELSE IF kind = "function_call"
            THEN LET h == DispatchFunctionCall(args) IN
                 IF h.ok THEN SvcSend(w, ReplyData(h.v), "recv", "", q)
                 ELSE SvcSend(w, ReplyException(h.v), "recv", "", q)
            ELSE IF kind \in {"close", "fork"}
            THEN SvcSend(w, ReplyException("builtins.TypeError"), "recv", "", q)
            ELSE \* getattr(self, '_dispatch_<kind>') raises AttributeError
                 SvcExit(w, "error", q)
    /\ hist' = IF r.st = "msg" /\ r.msg[1] = "function_call"
                   /\ ~DispatchFunctionCall(r.msg[2]).ok
                THEN [hist EXCEPT ![i].handlerRaised = TRUE]
                ELSE hist
    /\ UNCHANGED << cl, lock, th, calls, forked, sigs >>
    /\ last' = NoLast

\* recv_fd taking the descriptor without reading the bytes it came with.
RecvMsgLenNone(stream) == 0

\* recvmsg(HEADER.size, ...): the bytes read from the stream, at most
\* HEADER_SIZE, never past a byte that carries the next descriptor.
RecvMsgLen(stream) ==
    LET stop == {k \in 2..Len(stream) : stream[k].fd # NoFd}
        upto == IF stop = {} THEN Len(stream)
                ELSE (CHOOSE k \in stop : \A j \in stop : k <= j) - 1
    IN IF upto < HEADER_SIZE THEN upto ELSE HEADER_SIZE

\* str(os.P_PID): what the duplicate returns from _dispatch_fork
ForkChildReturn == IF P_PID = 1 THEN "1" ELSE "2"

\* _dispatch_fork after the acknowledgment: recv_fd, SerializedSocket.from_fd,
\* os.fork().  forkOk is whether os.fork() succeeds.
SvcRecvFd(w, forkOk) ==
    LET i == sv[w].conn
        stream == toW[i]
        fd == IF Len(stream) = 0 THEN NoFd ELSE stream[1].fd
        j == IF fd = "R1" THEN 1 ELSE 0
        q == [toW EXCEPT ![i] = SubSeq(stream, RecvMsgLen(stream) + 1, Len(stream))]
    IN
    /\ w = 0
    /\ sv[w].st = "running"
    /\ sv[w].pc = "fork_fd"
    /\ Len(stream) > 0 \/ holders[L(i)] = {}
    /\ IF fd = NoFd
       THEN \* fds[0] raises IndexError, caught by _dispatch
            /\ forkOk
            /\ SvcSend(w, ReplyException("builtins.IndexError"), "recv", "", q)
       ELSE IF ~forkOk
       THEN \* os.fork() raises OSError; new_conn is dropped
            SvcSend(w, ReplyException("builtins.OSError"), "recv", "", q)
       ELSE \* the duplicate holds every descriptor of the worker, the new
            \* one included; the worker drops new_conn when it returns
            /\ sv' = [sv EXCEPT ![w].pc = "reply", ![w].out = "ready",
                                ![1] = [st |-> "running", pc |-> "reply", conn |-> j,
                                        out |-> ForkChildReturn, how |-> ""]]
            /\ holders' = [e \in Endpoints |->
                             IF e = fd THEN holders[e] \cup {"w1"}
                             ELSE IF Proc(w) \in holders[e] THEN holders[e] \cup {"w1"}
                             ELSE holders[e]]
            /\ toW' = q
            /\ UNCHANGED << toC >>
    /\ UNCHANGED << cl, lock, th, calls, forked, sigs, hist >>
    /\ last' = NoLast

\* _dispatch: self._reply_data(response) with the value _dispatch_fork
\* returned, in the worker ("ready") and in the duplicate (the pid string).
SvcReply(w) ==
    /\ sv[w].st = "running"
    /\ sv[w].pc = "reply"
    /\ SvcSend(w, ReplyData(sv[w].out), "recv", "", toW)
    /\ UNCHANGED << cl, lock, th, calls, forked, sigs, hist >>
    /\ last' = NoLast

\* The worker process dies by itself (a crash of the native library).
WorkerCrash(w) ==
    /\ sv[w].st = "running"
    /\ SvcExit(w, "crash", toW)
    /\ UNCHANGED << cl, lock, th, calls, forked, sigs, hist >>
    /\ last' = NoLast

\* ------------------------------------------------------- specification
Next ==
    \/ \E t \in Callers, reply \in Replies : StartSpawn(t, reply) /\ UNCHANGED aux
    \/ \E t \in Callers : SpawnSend(t) /\ UNCHANGED aux
    \/ \E t \in Callers : SpawnRecv(t) /\ UNCHANGED aux
    \/ \E w \in Pairs : SvcBoot(w) /\ UNCHANGED aux
    \/ \E t \in Callers, c \in Pairs, fn \in Functions : StartCall(t, c, fn) /\ UNCHANGED aux
    \/ \E t \in Callers : StartFork(t) /\ UNCHANGED aux
    \/ \E t \in Callers : ReqEnter(t) /\ UNCHANGED aux
    \/ \E t \in Callers : ReqSend(t) /\ UNCHANGED aux
    \/ \E t \in Callers : ReqRecv(t) /\ UNCHANGED aux
    \/ \E t \in Callers : ForkSendFd(t) /\ UNCHANGED aux
    \/ \E t \in Callers : ForkRecvNew(t) /\ UNCHANGED aux
    \/ \E t \in Callers : ForkRecvOld(t) /\ UNCHANGED aux
    \/ \E t \in Callers, c \in Pairs, o \in {"delivered", "PermissionError", "ProcessLookupError"} :
          Close(t, c, o) /\ UNCHANGED aux
    \/ \E w \in Pairs : SvcRecv(w) /\ UNCHANGED aux
    \/ \E w \in Pairs, ok \in BOOLEAN : SvcRecvFd(w, ok) /\ UNCHANGED aux
    \/ \E w \in Pairs : SvcReply(w) /\ UNCHANGED aux
    \/ \E w \in Pairs : WorkerCrash(w) /\ UNCHANGED aux

Spec == Init /\ [][Next]_vars

\* The same program with callers that also use Client._request directly,
\* with a kind of request the Service does not know.
RequestNext ==
    \/ Next
    \/ \E t \in Callers, c \in Pairs : StartRequest(t, c) /\ UNCHANGED aux

RequestSpec == Init /\ [][RequestNext]_vars

\* ------------------------------------- SerializedSocket.recv, read by read
\* The messages a peer writes with send(): payloads of 1, 2 and 3 bytes.
Msgs ==
    { << "close", << >> >>, << "data", << "None" >> >>,
      << "exception", << "builtins.ValueError", "trace:ValueError" >> >> }

Min(a, b) == IF a < b THEN a ELSE b

RECURSIVE Join(_)
\* b''.join(parts)
Join(parts) ==
    IF parts = << >> THEN << >> ELSE Head(parts) \o Join(Tail(parts))

RECURSIVE Wire(_)
\* The bytes that send() writes for the messages ms, one frame after another.
Wire(ms) ==
    IF ms = << >> THEN << >> ELSE SendFrame(Head(ms)) \o Wire(Tail(ms))

Drop(q, k) == SubSeq(q, k + 1, Len(q))

\* No Client has been made and no worker spawned.
NoClient ==
    /\ cl = [c \in Pairs |-> [made |-> FALSE, good |-> FALSE, open |-> FALSE, pid |-> 0]]
    /\ lock = [kind |-> "NoLock", holder |-> 0]
    /\ th = [t \in Callers |-> IdleTh]
    /\ calls = 0
    /\ forked = FALSE
    /\ sv = [w \in Pairs |-> [st |-> "none", pc |-> "recv", conn |-> 0, out |-> "", how |-> ""]]
    /\ holders = [e \in Endpoints |-> {}]
    /\ toW = [i \in Pairs |-> << >>]
    /\ toC = [i \in Pairs |-> << >>]
    /\ sigs = {}
    /\ hist = [c \in Pairs |-> NoHist]
    /\ last = NoLast

\* The peer has written every frame; none of the bytes has arrived yet.
RecvInit ==
    /\ \E k \in 1..MaxFrames : \E ms \in [1..k -> Msgs] :
          rd = [NoReader EXCEPT !.sent = ms, !.wire = Wire(ms), !.open = TRUE,
                                !.pc = "idle"]
    /\ ft = NoTable
    /\ NoClient

\* The next k bytes on the wire arrive in the reader's socket buffer.
RdArrive(k) ==
    /\ rd.open /\ k \in 1..Len(rd.wire)
    /\ rd' = [rd EXCEPT !.stream = @ \o SubSeq(rd.wire, 1, k),
                         !.wire = Drop(@, k)]
    /\ UNCHANGED << main, ft >>

\* The peer closes its end; what it had not delivered never arrives.
RdPeerClose ==
    /\ rd.open
    /\ rd' = [rd EXCEPT !.open = FALSE, !.wire = << >>]
    /\ UNCHANGED << main, ft >>

\* SerializedSocket.recv is called: recv(self._sock, HEADER.size) begins.
RdRecv ==
    /\ rd.pc = "idle"
    /\ rd' = [rd EXCEPT !.pc = "header", !.size = HEADER_SIZE, !.parts = << >>]
    /\ UNCHANGED << main, ft >>

\* size -= len(part) taking one byte off whatever the read returned.
RemainingByOne(size, part) == size - 1

\* size -= len(part)
Remaining(size, part) == size - Len(part)

\* pickle.loads(payload) and the return of SerializedSocket.recv.
RdLoads(r, payload) ==
    LET l == Loads(payload) IN
    IF l.ok THEN [r EXCEPT !.pc = "idle", !.got = Append(@, l.msg), !.parts = << >>]
    ELSE [r EXCEPT !.pc = "raised", !.exc = l.exc, !.parts = << >>]

\* The end of the loop of recv(file, size): the header gives the size of
\* the payload read next (none for size 0), the payload is unpickled.
RdJoined(r) ==
    IF r.size > 0 THEN r
    ELSE IF r.pc = "header"
         THEN LET n == HeaderUnpack(Join(r.parts)) IN
              IF n = 0 THEN RdLoads(r, << >>)
              ELSE [r EXCEPT !.pc = "payload", !.size = n, !.parts = << >>]
         ELSE RdLoads(r, Join(r.parts))

\* part = file.recv(size) returns the next k bytes, 1 <= k <= size, of
\* the bytes that have arrived; parts.append(part); size -= len(part).
RdRead(k) ==
    /\ rd.pc \in {"header", "payload"} /\ rd.size > 0
    /\ k \in 1..Min(rd.size, Len(rd.stream))
    /\ LET part == Raw(SubSeq(rd.stream, 1, k)) IN
       rd' = RdJoined([rd EXCEPT !.stream = Drop(@, k),
                                 !.parts = Append(@, part),
                                 !.size = Remaining(@, part),
                                 !.n = @ + k,
                                 !.short = @ \/ k < rd.size])
    /\ UNCHANGED << main, ft >>

\* part = file.recv(size) returns b'' (nothing has arrived and the peer
\* has closed): raise EOFError.
RdEOF ==
    /\ rd.pc \in {"header", "payload"} /\ rd.size > 0
    /\ rd.stream = << >> /\ ~rd.open
    /\ rd' = [rd EXCEPT !.pc = "raised", !.exc = "EOFError"]
    /\ UNCHANGED << main, ft >>

RecvNext ==
    \/ \E k \in 1..(MaxFrames * (HEADER_SIZE + 3)) : RdArrive(k)
    \/ RdPeerClose
    \/ RdRecv
    \/ \E k \in 1..HEADER_SIZE : RdRead(k)
    \/ RdEOF

RecvSpec == RecvInit /\ [][RecvNext]_vars

\* ------------------------------------------------------ ipc.close_all_but
Fds == 0..(MaxFd - 1)

Range(q) == {q[i] : i \in 1..Len(q)}

RECURSIVE Sorted(_)
\* sorted(S) of a set S of integers
Sorted(S) ==
    IF S = {} THEN << >>
    ELSE LET m == CHOOSE x \in S : \A y \in S : x <= y
         IN << m >> \o Sorted(S \ {m})

\* close_all_but(keep) is called with every descriptor open; get_max_fd()
\* is the hard limit of the process, or a guess that open descriptors
\* can exceed.
CloseInit ==
    /\ \E n \in 0..MaxKeep : \E keep \in [1..n -> Fds] : \E max \in 1..MaxFd :
          ft = [NoTable EXCEPT !.keep = keep, !.max = max, !.open = Fds,
                               !.pc = "sort"]
    /\ rd = NoReader
    /\ NoClient

\* keep = sorted(set([-1] + keep + [get_max_fd()]))
CabSort ==
    /\ ft.pc = "sort"
    /\ ft' = [ft EXCEPT !.sorted = Sorted({-1} \cup Range(ft.keep) \cup {ft.max}),
                         !.i = 1, !.pc = "loop"]
    /\ UNCHANGED << main, rd >>

\* os.closerange(low, high) that closes high as well.
CloseRangeThrough(low, high) == low..high

\* os.closerange(low, high): the descriptors low <= fd < high.
CloseRange(low, high) == low..(high - 1)

\* One turn of the loop over zip(keep[:-1], keep[1:]).
CabStep ==
    /\ ft.pc = "loop" /\ ft.i < Len(ft.sorted)
    /\ LET s == ft.sorted[ft.i]
           e == ft.sorted[ft.i + 1]
           gone == IF s + 1 < e THEN CloseRange(s + 1, e) ELSE {}
       IN ft' = [ft EXCEPT !.open = @ \ gone, !.closed = @ \cup gone,
                           !.i = @ + 1]
    /\ UNCHANGED << main, rd >>

\* The loop is over: close_all_but returns.
CabReturn ==
    /\ ft.pc = "loop" /\ ft.i = Len(ft.sorted)
    /\ ft' = [ft EXCEPT !.pc = "done"]
    /\ UNCHANGED << main, rd >>

CloseNext == CabSort \/ CabStep \/ CabReturn

CloseSpec == CloseInit /\ [][CloseNext]_vars

\* -------------------------------------------------------------- claims
Crashed == Raise("RemoteProcessCrashed", "")
ClosedErr == Raise("RemoteProcessClosed", "")

\* A function_call request on Client c has just ended.
DoneCall(c) == last.op = "call" /\ last.c = c

\* Caller t's operation ends in this step.
Ends(t) ==
    /\ th[t].pc # "idle" /\ th'[t].pc = "idle"
    /\ last'.op = th[t].op /\ last'.c = th[t].c

\* The frames of a stream that holds whole frames only.
RECURSIVE FrameCount(_)
FrameCount(stream) ==
    IF Len(stream) < HEADER_SIZE THEN 0
    ELSE LET n == HeaderUnpack(Raw(SubSeq(stream, 1, HEADER_SIZE))) IN
         IF Len(stream) < HEADER_SIZE + n THEN 0
         ELSE 1 + FrameCount(SubSeq(stream, HEADER_SIZE + n + 1, Len(stream)))

\* C1: requests issued one after another on an Open Client (no two
\* exchanges ever overlapped on it, handler not raising) each return the
\* value their own handler returned; no reply is left over once the
\* exchange is finished and never more than one reply is waiting.
C1_SequentialReplies ==
    \A c \in Pairs : ~hist[c].overlap =>
        /\ DoneCall(c) /\ last.want.k = "return" =>
               \/ last.res = last.want
               \/ ~Good(c) /\ last.res \in {Crashed, ClosedErr}
        /\ cl[c].made /\ InFlight(c) = {} => toC[c] = << >>
        /\ cl[c].made /\ Len(toC[c]) > 0 => FrameCount(toC[c]) = 1

\* A request was answered on Client 0 after an earlier one had been
\* answered, and the Client is still Open.
C1_Witness ==
    /\ ~hist[0].overlap /\ Good(0)
    /\ DoneCall(0) /\ last.res = Ret("2") /\ last.want = Ret("2")
    /\ last.again

\* C2: on every Client at most one exchange is in flight at any time.
C2_OneInFlight ==
    \A c \in Pairs : Cardinality(InFlight(c)) <= 1

\* A whole close() call is made on Client c in this step.
CloseStep(c) == last'.op = "close" /\ last'.c = c

\* C3: a close() after a close() that returned raises nothing, sends no
\* frame and sends no signal.
C3_CloseIdempotent ==
    [][\A c \in Pairs :
          CloseStep(c) /\ hist[c].closeDone =>
             /\ last'.res = Ret("None")
             /\ toW' = toW
             /\ sigs' = sigs]_vars

\* C4: a request started after close() was called on its Client raises
\* RemoteProcessClosed at once, without reaching the send or the receive.
C4_ClosedAfterClose ==
    /\ \A t \in Callers :
          th[t].op \in {"call", "fork", "request"} /\ th[t].pre.closeCalled =>
             th[t].pc = "enter"
    /\ last.op \in {"call", "fork", "request"} /\ last.pre.closeCalled =>
          last.res = ClosedErr

\* The send or the receive of caller t's request is about to fail.
IOFails(t) ==
    LET c == th[t].c IN
    \/ th[t].pc = "send" /\ SendError(c) # ""
    \/ /\ th[t].pc = "recv"
       /\ \/ ~cl[c].open
          \/ Recv(toC[c], holders[R(c)] # {}).st = "exc"

C6_CrashedStaysCrashed ==
    last.op = "call" =>
       /\ last.pre.ioFailed /\ ~hist[last.c].closeCalled => last.res = Crashed
       /\ last.res = ClosedErr => hist[last.c].closeCalled

\* A step changes Client i, its worker, the streams of its socket pair, or
\* whether an endpoint of the pair is still open in some process (which is
\* what makes a receive on the other side see the end of the stream).
Touched(i) ==
    \/ cl'[i] # cl[i]
    \/ sv'[i] # sv[i]
    \/ toW'[i] # toW[i]
    \/ toC'[i] # toC[i]
    \/ (holders'[L(i)] = {}) # (holders[L(i)] = {})
    \/ (holders'[R(i)] = {}) # (holders[R(i)] = {})

\* C7: after fork_client has returned, the two Clients are served by two
\* processes on two socket pairs, a finished request has the result of its
\* own handler, and no step changes both Client/worker pairs.
C7_ForkIndependent ==
    /\ [](cl[1].made =>
            /\ sv[0].conn = 0 /\ sv[1].conn = 1 /\ sv[1].st # "none"
            /\ "w0" \notin holders["R1"]
            /\ last.op = "call" /\ ~hist[last.c].overlap /\ Good(last.c) =>
                  last.res = last.want)
    /\ [][cl[1].made => ~(Touched(0) /\ Touched(1))]_vars

\* C8: the pid held by the forked Client is the pid of the duplicated
\* worker.
C8_ForkPid ==
    cl[1].made => cl[1].pid = PidOf(1)

\* Worker w serves, in this step, a function_call request whose handler
\* raises.
HandlerRaises(w) ==
    LET i == sv[w].conn
        r == Recv(toW[i], holders[L(i)] # {})
    IN /\ sv[w].st = "running" /\ sv[w].pc = "recv"
       /\ r.st = "msg" /\ r.msg[1] = "function_call"
       /\ ~DispatchFunctionCall(r.msg[2]).ok
       /\ toW'[i] = FlushW(holders', [toW EXCEPT ![i] = r.rest])[i]
       /\ sv'[w].how # "crash"
       /\ th' = th /\ cl' = cl

\* The exception reply for the request worker w is about to serve.
ExceptionFrame(w) ==
    LET i == sv[w].conn
        e == DispatchFunctionCall(Recv(toW[i], TRUE).msg[2]).v
    IN SendFrame(<< "exception", << e, FormatException(e) >> >>)

RepliesOnceAndRuns(w) ==
    /\ toC'[sv[w].conn] = toC[sv[w].conn] \o ExceptionFrame(w)
    /\ sv'[w] = sv[w]

\* C9 as stated: a raising handler always gives one 'exception' reply and
\* the Service keeps running.
C9_ExceptionKeepsRunning ==
    [][\A w \in Pairs : HandlerRaises(w) => RepliesOnceAndRuns(w)]_vars

\* C9 amended: it does so whenever the Client's end of the connection is
\* still open when the reply is sent.
C9_ExceptionKeepsRunningIfPeerOpen ==
    [][\A w \in Pairs :
          HandlerRaises(w) /\ holders[L(sv[w].conn)] # {} =>
             RepliesOnceAndRuns(w)]_vars

\* A request was served by the worker after the handler of an earlier
\* request had raised.
C9_Witness ==
    /\ DoneCall(0) /\ hist[0].handlerRaised /\ ~hist[0].overlap
    /\ last.res = last.want /\ last.want.k = "return"
    /\ sv[0].st = "running" /\ sv[0].pc = "recv"

\* Caller t receives, in this step, an 'exception' reply to its request.
GetsException(t) ==
    LET c == th[t].c
        r == Recv(toC[c], holders[R(c)] # {})
    IN /\ th[t].pc = "recv" /\ cl[c].open
       /\ r.st = "msg" /\ r.msg[1] = "exception" /\ Len(r.msg[2]) = 2
       /\ th'[t] # th[t]

\* C10: an 'exception' reply makes _request raise an error named after the
\* remote exception type, with the trace text sent as its message, and
\* leaves the Client as it was.
C10_RemoteException ==
    [][\A t \in Callers :
          GetsException(t) =>
             LET a == Recv(toC[th[t].c], TRUE).msg[2] IN
             /\ Ends(t)
             /\ last'.res.k = "raise"
             /\ last'.res.v = TypeName(a[1])
             /\ last'.res.m = a[2]
             /\ cl' = cl /\ holders' = holders]_vars

\* A caller saw the remote ValueError with its trace, and its Client is
\* still Open with its worker waiting for the next request.
C10_Witness ==
    /\ DoneCall(0) /\ last.res = Raise("ValueError", "trace:ValueError")
    /\ last.want = last.res
    /\ Good(0) /\ sv[0].st = "running" /\ sv[0].pc = "recv"

\* C11: spawn_subprocess never waits for ever: when the new process is gone
\* before it has answered, the handshake receive of the controlling process
\* does not block (it sees the end of the stream or a frame, and raises).
C11_SpawnTerminates ==
    \A t \in Callers :
        th[t].pc = "spawn_recv" /\ sv[0].st # "running" =>
           Recv(toC[0], holders["R0"] # {}).st # "block"

\* The frame waiting on the original connection, which fork_client takes
\* as the worker's second acknowledgment, is not data('ready').
NotReadyAck ==
    LET a == Recv(toC[0], TRUE) IN
    a.st = "msg" /\ a.msg # << "data", << "ready" >> >>

\* C12: when the second acknowledgment on the original connection is not
\* 'ready', fork_client does not wait for ever (its receive on the new
\* connection does not block once the worker has left _dispatch_fork
\* without duplicating itself) and it makes no new Client.
C12_ForkViolationRaises ==
    /\ [](\A t \in Callers :
            /\ th[t].pc = "fork_recv_new" /\ NotReadyAck
            /\ sv[1].st = "none" /\ sv[0].pc # "fork_fd"
            => Recv(toC[1], holders["R1"] # {}).st # "block")
    /\ [][\A t \in Callers :
            th[t].pc = "fork_recv_old" /\ NotReadyAck /\ th'[t] # th[t] =>
               /\ Ends(t) /\ last'.res.k = "raise"
               /\ cl'[1] = cl[1]]_vars

\* C13: close() on a Client that is still Open while no process holds the
\* worker's end of its connection any more does not raise, leaves the
\* transport closed and gives the held pid to os.kill.
C13_CloseBestEffort ==
    [][\A c \in Pairs :
          CloseStep(c) /\ Good(c) /\ holders[R(c)] = {} =>
             /\ last'.res.k = "return"
             /\ ~cl'[c].open
             /\ last'.res.sig = cl[c].pid]_vars

\* C14: when close() returns on the Client made by spawn_subprocess, the
\* spawned worker has ended and has been reaped.
C14_CloseReaps ==
    last.op = "close" /\ last.c = 0 /\ last.res.k = "return" =>
       sv[0].st = "reaped"

\* close() has returned on that Client after its worker had ended by
\* itself (a crash), and the worker is reaped.
C14_Witness ==
    /\ last.op = "close" /\ last.c = 0 /\ last.res.k = "return"
    /\ last.res.sig = Pid0
    /\ sv[0].st = "reaped" /\ sv[0].how = "crash"

\* The frames of a fork exchange.
ForkRequest == SendFrame(<< "fork", << >> >>)
ForkAck == ReplyData("None")
ForkHandle == SendFdFrame("R1")
ForkPid == ReplyData(ForkChildReturn)
ForkReady == ReplyData("ready")

\* Caller t is in a fork with a single caller and no failure so far: no
\* exchange ever overlapped on the original Client, no worker has ended
\* and the worker has not answered with an 'exception' reply.
ForkAlone(t) ==
    /\ th[t].op = "fork" /\ th[t].pc # "idle"
    /\ \A u \in Callers \ {t} : th[u].pc = "idle"
    /\ ~hist[0].overlap
    /\ sv[0].st = "running" /\ sv[1].st \in {"none", "running"}
    /\ LET a == Recv(toC[0], TRUE) IN a.st = "msg" => a.msg[1] = "data"

\* Nothing of the fork has reached the worker.
ForkNotSeen ==
    /\ toC[0] = << >> /\ sv[0].pc = "recv" /\ sv[1].st = "none"

\* The original worker has still to answer 'ready', or its answer waits.
OldReplies ==
    \/ sv[0].pc = "reply" /\ sv[0].out = "ready" /\ toC[0] = << >>
    \/ sv[0].pc = "recv" /\ toC[0] = ForkReady

\* The duplicate has still to answer with its pid, or its answer waits.
NewReplies ==
    \/ sv[1].pc = "reply" /\ toC[1] = << >>
    \/ sv[1].pc = "recv" /\ toC[1] = ForkPid

\* Where the exchange stands for each position of the caller, and that
\* some step of it can be taken (no deadlock).
ForkStage(t) ==
    LET pc == th[t].pc IN
    /\ pc = "enter" => ForkNotSeen /\ toW[0] = << >> /\ lock.holder = 0
    /\ pc = "send" => ForkNotSeen /\ toW[0] = << >>
    /\ pc = "recv" =>
          \/ ForkNotSeen /\ toW[0] = ForkRequest
          \/ /\ toW[0] = << >> /\ toC[0] = ForkAck
             /\ sv[0].pc = "fork_fd" /\ sv[1].st = "none"
    /\ pc = "fork_sendfd" =>
          /\ toW[0] = << >> /\ toC[0] = << >>
          /\ sv[0].pc = "fork_fd" /\ sv[1].st = "none"
    /\ pc = "fork_recv_new" =>
          \/ /\ toW[0] = ForkHandle /\ toC[0] = << >> /\ toC[1] = << >>
             /\ sv[0].pc = "fork_fd" /\ sv[1].st = "none"
          \/ /\ toW[0] = << >> /\ sv[1].st = "running" /\ sv[1].conn = 1
             /\ OldReplies /\ NewReplies
    /\ pc = "fork_recv_old" =>
          /\ toW[0] = << >> /\ toC[1] = << >>
          /\ sv[1].st = "running" /\ sv[1].pc = "recv" /\ sv[1].conn = 1
          /\ th[t].newpid = ForkChildReturn
          /\ OldReplies

\* When fork_client has returned (single caller, no failure), neither
\* connection holds an unread frame and both Services wait for a request.
ForkSettled ==
    /\ last.op = "fork" /\ last.res.k = "return" /\ ~hist[0].overlap
    /\ sv[0].st = "running" /\ sv[1].st = "running"
    => /\ toW = [i \in Pairs |-> << >>] /\ toC = [i \in Pairs |-> << >>]
       /\ sv[0].pc = "recv" /\ sv[1].pc = "recv"
       /\ sv[0].conn = 0 /\ sv[1].conn = 1
       /\ cl[1].made

\* C15 as stated: the frames of a fork occur in the order given, the
\* duplicate's reply before the original worker's 'ready'.
C15_ForkOrderStrict ==
    /\ \A t \in Callers : ForkAlone(t) =>
          /\ ForkStage(t)
          /\ sv[1].st = "running" /\ sv[0].pc = "recv" => sv[1].pc = "recv"
    /\ ForkSettled

\* C15 amended: the same order, except that the duplicate's reply and the
\* original worker's 'ready' may come in either order.
C15_ForkOrder ==
    /\ \A t \in Callers : ForkAlone(t) => ForkStage(t)
    /\ ForkSettled

\* fork_client has returned to a single caller with both workers alive.
C15_Witness ==
    /\ last.op = "fork" /\ last.res = Ret("client1") /\ ~hist[0].overlap
    /\ sv[0].st = "running" /\ sv[1].st = "running"
    /\ sv[0].pc = "recv" /\ sv[1].pc = "recv"
    /\ toC = [i \in Pairs |-> << >>]

\* Caller t is between the worker's first acknowledgment of its 'fork'
\* request and the end of fork_client.
ForkTail(t) ==
    th[t].op = "fork" /\ th[t].pc \in {"fork_sendfd", "fork_recv_new", "fork_recv_old"}

\* recv_fd in the worker reads the handle-transfer frame: the first byte
\* waiting on the original connection carries the descriptor.
RecvFdGetsHandle ==
    sv[0].st = "running" /\ sv[0].pc = "fork_fd" /\ Len(toW[0]) > 0 =>
       toW[0][1].fd # NoFd

\* C16: with a lock shared by the callers, no other caller has an exchange
\* in flight on the original connection while a fork is past its first
\* acknowledgment, so recv_fd always reads the handle-transfer frame.
C16_ForkAtomic ==
    lock.kind = "Lock" =>
       /\ \A t \in Callers : ForkTail(t) =>
             \A u \in Callers \ {t} : ~Busy(u, 0)
       /\ RecvFdGetsHandle

\* C17: when a handler has raised and the Client's end of the connection
\* is gone as the 'exception' reply is sent, the Service stops without an
\* error: run() returns.
C17_ReplyFailureStops ==
    [][\A w \in Pairs :
          HandlerRaises(w) /\ holders[L(sv[w].conn)] = {} =>
             sv'[w].st = "zombie" /\ sv'[w].how = "clean"]_vars

\* Worker w serves, in this step, a 'close' request.
ServesClose(w) ==
    LET i == sv[w].conn
        r == Recv(toW[i], holders[L(i)] # {})
    IN /\ sv[w].st = "running" /\ sv[w].pc = "recv"
       /\ r.st = "msg" /\ r.msg = << "close", << >> >>
       /\ last' = NoLast
       /\ sv'[w] # sv[w] /\ sv'[w].how # "crash"

\* C18: a Service that receives a 'close' request closes its transport,
\* writes no reply and stops without an error; a Service that has stopped
\* never runs again.
C18_CloseStops ==
    [][\A w \in Pairs :
          /\ ServesClose(w) =>
                /\ sv'[w].st = "zombie" /\ sv'[w].how = "clean"
                /\ Proc(w) \notin holders'[R(sv[w].conn)]
                /\ toC'[sv[w].conn] \in {toC[sv[w].conn], << >>}
          /\ sv[w].st \in {"zombie", "reaped"} =>
                sv'[w].st \in {"zombie", "reaped"}]_vars

\* The duplicated worker has stopped on the 'close' request of a close()
\* that returned on its Client, with no exchange ever overlapping there.
C18_Witness ==
    /\ sv[1].st = "zombie" /\ sv[1].how = "clean"
    /\ hist[1].closeDone /\ ~hist[1].overlap /\ ~hist[1].ioFailed
    /\ toC[1] = << >>

RECURSIVE Total(_)
\* The number of bytes send() writes for the messages ms.
Total(ms) ==
    IF ms = << >> THEN 0
    ELSE HEADER_SIZE + Len(Dumps(Head(ms))) + Total(Tail(ms))

IsPrefix(p, q) == Len(p) <= Len(q) /\ p = SubSeq(q, 1, Len(p))

\* The messages sent and not yet returned by recv().
Unreceived == SubSeq(rd.sent, Len(rd.got) + 1, Len(rd.sent))

\* A reader step taken when nothing is left to read and the peer has closed.
ReadsAtEnd ==
    /\ rd.pc \in {"header", "payload"} /\ rd.size > 0
    /\ rd.stream = << >> /\ ~rd.open
    /\ rd' # rd

\* C19: however the bytes arrive and are split into partial reads, recv()
\* returns the messages that were sent, in order; when it returns it has
\* consumed exactly 4 + length bytes of each frame and the frames that
\* follow are unread and whole; it raises only EOFError, only after the
\* peer closed with less than one whole further frame delivered, and a
\* read at the end of a closed stream raises it and returns no message.
C19_RecvExact ==
    /\ [](/\ Len(rd.got) <= Len(rd.sent)
          /\ \A i \in 1..Len(rd.got) : rd.got[i] = rd.sent[i]
          /\ rd.pc = "idle" =>
                /\ rd.n = Total(rd.got)
                /\ IF rd.open THEN rd.stream \o rd.wire = Wire(Unreceived)
                   ELSE IsPrefix(rd.stream, Wire(Unreceived))
          /\ rd.pc = "raised" =>
                /\ rd.exc = "EOFError" /\ ~rd.open /\ rd.stream = << >>
                /\ rd.n >= Total(rd.got)
                /\ Unreceived # << >> =>
                      rd.n < Total(rd.got) + Total(<< Head(Unreceived) >>))
    /\ [][ReadsAtEnd =>
            rd'.pc = "raised" /\ rd'.exc = "EOFError" /\ rd'.got = rd.got]_vars

\* After one message was returned from reads that came back short, the
\* peer closed in the middle of the next frame and recv() raised.
C19_Witness ==
    /\ rd.pc = "raised" /\ rd.short
    /\ Len(rd.got) = 1 /\ Len(rd.sent) = 2
    /\ rd.n > Total(rd.got) + HEADER_SIZE

\* The descriptor numbers in the list given to close_all_but.
Kept == Range(ft.keep)

SpawnDone ==
    /\ cl[0].made /\ sv[0].st = "running"
    /\ \A t \in Callers : th[t].op # "fork"

\* fork_client has returned Client 1 and both workers are in their loop.
ForkDone ==
    /\ cl[1].made
    /\ sv[0].st = "running" /\ sv[1].st = "running"
    /\ sv[0].pc = "recv" /\ sv[1].pc = "recv"

\* C21: after a successful spawn and a successful fork the controlling
\* process holds no remote endpoint, the original worker does not hold the
\* new remote endpoint and the duplicated worker does not hold the original
\* one; so once a worker has exited nobody holds its remote endpoint and
\* its Client's next receive sees EOF.
C21_SingleOwner ==
    /\ SpawnDone => "ctl" \notin holders["R0"]
    /\ ForkDone =>
          /\ "ctl" \notin holders["R0"] \cup holders["R1"]
          /\ "w0" \notin holders["R1"]
          /\ "w1" \notin holders["R0"]
    /\ \A w \in Pairs :
          /\ cl[w].made /\ (forked => cl[1].made)
          /\ sv[w].st \in {"zombie", "reaped"} /\ sv[w].conn = w
          => holders[R(w)] = {}

\* Worker w serves, in this step, a request of a kind it has no handler for.
ServesUnknown(w) ==
    LET i == sv[w].conn
        r == Recv(toW[i], holders[L(i)] # {})
    IN /\ sv[w].st = "running" /\ sv[w].pc = "recv"
       /\ r.st = "msg" /\ r.msg[1] \notin {"close", "fork", "function_call"}
       /\ last' = NoLast
       /\ sv'[w] # sv[w] /\ sv'[w].how # "crash"

\* The request of unknown kind never gets an answer: with no other exchange
\* overlapping on its Client it ends in RemoteProcessCrashed, or in
\* RemoteProcessClosed when the Client was closed before.
UnknownNeverAnswered ==
    last.op = "request" /\ ~hist[last.c].overlap =>
       last.res \in {Crashed, ClosedErr}

\* C22: a Service that receives a request of unknown kind writes no reply
\* frame and ends with an error; its end of the connection is then closed,
\* so that the Client that sent the request reads EOF and its request ends
\* in RemoteProcessCrashed.
C22_UnknownKindCrashes ==
    /\ [][\A w \in Pairs :
            ServesUnknown(w) =>
               /\ sv'[w].st = "zombie" /\ sv'[w].how = "error"
               /\ toC'[sv[w].conn] \in {toC[sv[w].conn], << >>}
               /\ holders'[R(sv[w].conn)] = {}]_vars
    /\ []UnknownNeverAnswered

====
